---- MODULE Spec2Model ----
(***************************************************************************)
(* Column-aware CI for dbt Cloud: the breaking-change classifier           *)
(* (src/models/node.py, src/models/breaking_change.py) and the downstream  *)
(* impact resolver (NodeManager, ColumnTracker, LineageService).           *)
(*                                                                         *)
(* The SQL parser and the tree differ are the sqlglot library: a parsed    *)
(* query is a tree of expressions (key, parent, arg_key, name, alias,      *)
(* table) and a diff is a set of edits anchored at nodes of the source or  *)
(* of the target tree.  Both are inputs of the model.                      *)
(***************************************************************************)
EXTENDS Integers, Sequences, FiniteSets, TLC

VARIABLES
    \* ---- Node.__post_init__ (one node under construction) ----
    query,          \* which parsed query the source and target texts yield
    node_pc,        \* "new" | "diff" | "built" | "raised"
    parsed,         \* "pending" | "ok" | "source_error" | "target_error"
    script,         \* edits the differ has produced so far for this node
    diff_failed,    \* TRUE when diff() raised inside the try block
    node,           \* the constructed Node's derived fields
    \* ---- NodeManager.get_excluded_nodes (one manager, one run) ----
    nodes,              \* NodeManager.nodes: the batch, in dict order
    all_unique_ids,     \* NodeManager.all_unique_ids: the candidate universe
    all_impacted,       \* NodeManager._all_impacted_unique_ids
    tracked_columns,    \* ColumnTracker._tracked_columns
    tracker_impacted,   \* ColumnTracker._impacted_ids
    mgr_pc,             \* "off" | "idle" | "loop" | "track" | "done" | "raised"
    i,                  \* position of `for node in self.nodes`
    pending,            \* columns of nodes[i] that track_node_columns has not reached
    impacted_ids,       \* the local impacted_ids of track_node_columns
    excluded,           \* the returned list, as a bag of names
    calls,              \* the lineage lookups issued so far, with their results
    dialect,            \* Config.dialect
    track_log,          \* the track_node_columns calls entered so far
    handle,             \* the set object last returned by ColumnTracker.impacted_ids
    run,                \* 1 for the first NodeManager, 2 for the one compared with it
    first_run,          \* what the first NodeManager, or the first call, returned
    \* ---- CiOrchestrator.run ----
    orch_pc,            \* "new" | "compile" | "exclude" | "analysis" | "trigger" | "returned"
    orch_in,            \* what the run finds: compiled code, `dbt ls` output, dry_run
    orch_log,           \* the workflow steps entered so far, in order
    orch_result,        \* what run() returned, or that it raised
    \* ---- two track_node_columns calls on one ColumnTracker ----
    frames              \* the position and the locals of either call

node_vars == <<query, node_pc, parsed, script, diff_failed, node>>
mgr_vars == <<nodes, all_unique_ids, all_impacted, tracked_columns, tracker_impacted,
              mgr_pc, i, pending, impacted_ids, excluded, calls,
              dialect, track_log, handle, run, first_run>>
orch_vars == <<orch_pc, orch_in, orch_log, orch_result>>
vars == <<node_vars, mgr_vars, orch_vars, frames>>

----------------------------------------------------------------------------
\* Bounds

\* Largest number of edits in one edit script.
MaxEdits == 2

\* Largest number of track_node_columns calls made on one ColumnTracker.
MaxCalls == 3

----------------------------------------------------------------------------
\* Parsed query trees (the result of parse_one).  Nodes are numbered in the
\* order of Expression.walk(bfs=True): the root is 1, parent 0 is None.
\* Leaf Identifier and Literal nodes are left out; an edit anchored at one
\* is walked like an edit anchored at its parent.

Nd(k, p, a, nm, al, tb) ==
    [key |-> k, parent |-> p, arg |-> a, name |-> nm, alias |-> al, table |-> tb]

\* WITH summary AS (SELECT category_id, SUM(amount) AS total, cnt FROM ...)
\* SELECT c.name, s.total AS category_total, s.cnt, EXPLODE(...)
\* FROM categories c JOIN summary s ON c.id = s.category_id
\* WHERE c.flag > 0
T1 ==
    << Nd("select", 0, "", "", "", ""),                          \* 1
       Nd("column", 1, "expressions", "name", "", "c"),          \* 2
       Nd("alias", 1, "expressions", "total", "category_total", ""), \* 3
       Nd("column", 1, "expressions", "cnt", "", "s"),           \* 4
       Nd("explode", 1, "expressions", "", "", ""),              \* 5
       Nd("from", 1, "from", "", "", ""),                        \* 6
       Nd("join", 1, "joins", "", "", ""),                        \* 7
       Nd("where", 1, "where", "", "", ""),                      \* 8
       Nd("with", 1, "with", "", "", ""),                        \* 9
       Nd("column", 3, "this", "total", "", "s"),                \* 10
       Nd("table", 6, "this", "categories", "c", ""),            \* 11
       Nd("table", 7, "this", "summary", "s", ""),               \* 12
       Nd("eq", 7, "on", "", "", ""),                            \* 13
       Nd("gt", 8, "this", "", "", ""),                          \* 14
       Nd("cte", 9, "expressions", "", "summary", ""),           \* 15
       Nd("tablealias", 11, "alias", "c", "", ""),               \* 16
       Nd("tablealias", 12, "alias", "s", "", ""),               \* 17
       Nd("column", 13, "this", "id", "", "c"),                  \* 18
       Nd("column", 13, "expression", "category_id", "", "s"),   \* 19
       Nd("column", 14, "this", "flag", "", "c"),                \* 20
       Nd("select", 15, "this", "", "", ""),                     \* 21
       Nd("tablealias", 15, "alias", "summary", "", ""),         \* 22
       Nd("column", 21, "expressions", "category_id", "", ""),   \* 23
       Nd("alias", 21, "expressions", "", "total", ""),          \* 24
       Nd("column", 21, "expressions", "cnt", "", ""),           \* 25
       Nd("sum", 24, "this", "", "", ""),                        \* 26
       Nd("column", 26, "this", "amount", "", "") >>             \* 27

\* WITH s AS (SELECT amount FROM ...)
\* SELECT s.amount AS gross, s.amount AS net, COUNT(*) AS "" FROM s
\* The CTE's column is exposed twice, and the third entry's alias is the
\* zero-length identifier: its alias_or_name is the empty string.
T2 ==
    << Nd("select", 0, "", "", "", ""),                          \* 1
       Nd("alias", 1, "expressions", "amount", "gross", ""),     \* 2
       Nd("alias", 1, "expressions", "amount", "net", ""),       \* 3
       Nd("alias", 1, "expressions", "", "", ""),                \* 4
       Nd("from", 1, "from", "", "", ""),                        \* 5
       Nd("with", 1, "with", "", "", ""),                        \* 6
       Nd("column", 2, "this", "amount", "", "s"),               \* 7
       Nd("column", 3, "this", "amount", "", "s"),               \* 8
       Nd("count", 4, "this", "", "", ""),                       \* 9
       Nd("table", 5, "this", "s", "", ""),                      \* 10
       Nd("cte", 6, "expressions", "", "s", ""),                 \* 11
       Nd("star", 9, "this", "*", "", ""),                       \* 12
       Nd("select", 11, "this", "", "", ""),                     \* 13
       Nd("tablealias", 11, "alias", "s", "", ""),               \* 14
       Nd("column", 13, "expressions", "amount", "", "") >>      \* 15

Queries == [q1 |-> T1, q2 |-> T2]

\* exp.UDTF and its subclasses.
UDTFKeys == {"udtf", "explode", "posexplode", "unnest", "lateral", "tablefromrows"}

----------------------------------------------------------------------------
\* Values of Optional[str], and the outcome of a call that raises.

None == [tag |-> "None"]
Str(s) == [tag |-> "str", val |-> s]
Raise == [tag |-> "raise"]

Min(S) == CHOOSE x \in S : \A y \in S : x <= y

----------------------------------------------------------------------------
\* sqlglot Expression accessors used by the classifier

RECURSIVE depth(_, _)
depth(t, n) == IF t[n].parent = 0 THEN 0 ELSE 1 + depth(t, t[n].parent)

\* Expression.find_ancestor: the nearest proper ancestor whose key is in
\* keys, 0 (None) when there is none.
RECURSIVE find_ancestor(_, _, _)
find_ancestor(t, n, keys) ==
    LET ancestor == t[n].parent
    IN  IF ancestor = 0 THEN 0
        ELSE IF t[ancestor].key \in keys THEN ancestor
        ELSE find_ancestor(t, ancestor, keys)

alias_or_name(t, n) == IF t[n].alias # "" THEN t[n].alias ELSE t[n].name

\* walk_in_scope(root): the nodes reached from the root without descending
\* below a CTE or a nested query.
RECURSIVE below_boundary(_, _)
below_boundary(t, n) ==
    LET p == t[n].parent
    IN  IF p = 0 THEN FALSE
        ELSE IF t[p].parent # 0 /\ t[p].key \in {"cte", "select", "union", "subquery"} THEN TRUE
        ELSE below_boundary(t, p)

walk_in_scope(t) == {n \in DOMAIN t : ~below_boundary(t, n)}

----------------------------------------------------------------------------
\* BreakingChange

\* BreakingChange.__post_init__: edit.expression, or edit.source when the
\* edit has no expression (Update, Move).
expr_of(edit) ==
    IF "expression" \in DOMAIN edit THEN edit.expression ELSE edit.source

in_cte(t, expr) == find_ancestor(t, expr, {"cte"}) # 0

\* BreakingChange._find_cte_alias: the first TableAlias of the root scope
\* whose Table is named like the CTE; the CTE's own name on IndexError.
\* find_ancestor(Table) is None for a TableAlias that hangs under no Table,
\* and .name on it raises AttributeError.
find_cte_alias(t, cte) ==
    LET tas == {ta \in walk_in_scope(t) : t[ta].key = "tablealias"}
        hit == {ta \in tas : LET tb == find_ancestor(t, ta, {"table"})
                             IN  tb # 0 /\ t[tb].name = t[cte].alias}
    IN  IF \E ta \in tas : find_ancestor(t, ta, {"table"}) = 0 THEN Raise
        ELSE IF hit # {} THEN Str(t[Min(hit)].name)
        ELSE Str(t[cte].alias)

\* A plausible slip: the CTE-local name is returned without looking for the
\* outer reference.
find_parent_column_name_local(t, expr) == Str(alias_or_name(t, expr))

\* BreakingChange._find_parent_column_name
find_parent_column_name(t, expr) ==
    LET cte == find_ancestor(t, expr, {"cte"})
        cte_alias == find_cte_alias(t, cte)
        local == alias_or_name(t, expr)
        refs == {c \in walk_in_scope(t) :
                    /\ t[c].key = "column"
                    /\ ~in_cte(t, c)
                    /\ Str(t[c].table) = cte_alias
                    /\ t[c].name = local}
    IN  IF cte_alias = Raise THEN Raise
        ELSE IF refs # {}
        THEN LET column == Min(refs)
                 parent_alias == find_ancestor(t, column, {"alias"})
             IN  IF parent_alias # 0
                 THEN Str(alias_or_name(t, parent_alias))
                 ELSE Str(alias_or_name(t, column))
        ELSE Str(local)

\* BreakingChange.column_name: the upward walk from the anchor.
RECURSIVE column_name(_, _)
column_name(t, expr) ==
    LET is_column == t[expr].key \in {"alias", "column"}
        has_ancestor == find_ancestor(t, expr, {"column", "alias"}) # 0
    IN  IF is_column /\ ~has_ancestor
        THEN IF in_cte(t, expr)
             THEN find_parent_column_name(t, expr)
             ELSE Str(alias_or_name(t, expr))
        ELSE IF depth(t, expr) < 1 THEN None
        ELSE column_name(t, t[expr].parent)

----------------------------------------------------------------------------
\* Edits (sqlglot.diff).  Insert and Remove carry .expression, Update and
\* Move carry .source (their .target is never read).  An Insert is anchored
\* in the target tree, every other edit in the source tree.

Insert(n) == [kind |-> "Insert", expression |-> n]
Remove(n) == [kind |-> "Remove", expression |-> n]
Update(n) == [kind |-> "Update", source |-> n]
Move(n) == [kind |-> "Move", source |-> n]

Edits(t) == {Insert(n) : n \in DOMAIN t} \cup {Remove(n) : n \in DOMAIN t}
            \cup {Update(n) : n \in DOMAIN t} \cup {Move(n) : n \in DOMAIN t}

----------------------------------------------------------------------------
\* Node

\* A plausible slip: the parent test is applied to every edit, not only to
\* Inserts.
get_breaking_changes_all_by_parent(t, changes) ==
    LET inserts == {e.expression : e \in {c \in changes : c.kind = "Insert"}}
    IN  {edit \in changes :
            LET x == expr_of(edit)
            IN  \/ t[x].key \in UDTFKeys
                \/ /\ (t[x].parent = 0 \/ t[t[x].parent].key # "select")
                   /\ t[x].parent \notin inserts}

\* A plausible slip: every edit of the script is taken as breaking.
get_breaking_changes_every_edit(t, changes) == changes

\* Node._get_breaking_changes
get_breaking_changes(t, changes) ==
    LET inserts == {e.expression : e \in {c \in changes : c.kind = "Insert"}}
    IN  {edit \in changes :
            \/ edit.kind # "Insert"
            \/ t[edit.expression].key \in UDTFKeys
            \/ /\ (t[edit.expression].parent = 0
                     \/ t[t[edit.expression].parent].key # "select")
               /\ t[edit.expression].parent \notin inserts}

\* A plausible slip: column names are kept next to a structural change.
derive_keep_columns(t, changes) ==
    LET breaking_changes == get_breaking_changes(t, changes)
        names == {column_name(t, expr_of(bc)) : bc \in breaking_changes}
        ignore == None \in names
    IN  [changes |-> changes,
         breaking_changes |-> breaking_changes,
         ignore_column_changes |-> ignore,
         column_changes |-> {nm.val : nm \in {x \in names : x.tag = "str" /\ x.val # ""}}]

\* Node.__post_init__, lines 62-75: the fields derived from the edit script.
derive(t, changes) ==
    LET breaking_changes == get_breaking_changes(t, changes)
        names == {column_name(t, expr_of(bc)) : bc \in breaking_changes}
        ignore == None \in names
    IN  [changes |-> changes,
         breaking_changes |-> breaking_changes,
         ignore_column_changes |-> ignore,
         column_changes |->
            IF ignore THEN {}
            ELSE {nm.val : nm \in {x \in names : x.tag = "str" /\ x.val # ""}}]

\* Whether evaluating the derived fields can raise: some column_name raises,
\* and either no change resolves to None or the raising one comes first in
\* the edit list (any() stops at the first None).
may_raise(t, changes) ==
    \E bc \in get_breaking_changes(t, changes) : column_name(t, expr_of(bc)) = Raise

may_return(t, changes) ==
    LET names == {column_name(t, expr_of(bc)) : bc \in get_breaking_changes(t, changes)}
    IN  Raise \notin names \/ None \in names

NoNode == [changes |-> {}, breaking_changes |-> {},
           ignore_column_changes |-> FALSE, column_changes |-> {}]

----------------------------------------------------------------------------
\* Node construction as a state machine

\* The source and the target text parse to trees of this shape; an Insert
\* is anchored in the target's, every other edit in the source's.  Members
\* of `inserts` are told apart by their place in the tree.
tree == Queries[query]

InitNode ==
    /\ query \in DOMAIN Queries
    /\ node_pc = "new"
    /\ parsed = "pending"
    /\ script = {}
    /\ diff_failed = FALSE
    /\ node = NoNode
    /\ nodes = <<>>
    /\ all_unique_ids = {}
    /\ all_impacted = {}
    /\ tracked_columns = {}
    /\ tracker_impacted = {}
    /\ mgr_pc = "idle"
    /\ i = 0
    /\ pending = {}
    /\ impacted_ids = {}
    /\ excluded = <<>>
    /\ calls = <<>>
    /\ dialect = "snowflake"
    /\ track_log = <<>>
    /\ handle = [shared |-> FALSE, val |-> {<<"none">>}]
    /\ run = 1
    /\ first_run = [excluded |-> <<>>, impacted |-> {}]
    /\ orch_pc = "new"
    /\ orch_in = [target |-> {}, source |-> {}, listed |-> {}, dry_run |-> FALSE]
    /\ orch_log = <<>>
    /\ orch_result = None
    /\ frames = [t \in {1, 2} |-> [pc |-> "out", pending |-> {}, column |-> "", impacted_ids |-> {}]]

\* parse_one on the source and on the target text, outside any try block:
\* a ParseError leaves __post_init__.
Parse ==
    /\ node_pc = "new"
    /\ \E source_ok \in BOOLEAN, target_ok \in BOOLEAN :
          /\ parsed' = IF ~source_ok THEN "source_error"
                        ELSE IF ~target_ok THEN "target_error" ELSE "ok"
          /\ node_pc' = IF source_ok /\ target_ok THEN "diff" ELSE "raised"
    /\ UNCHANGED <<query, script, diff_failed, node, mgr_vars, orch_vars, frames>>

\* The differ adds one edit to its script.
DiffEmit ==
    /\ node_pc = "diff"
    /\ Cardinality(script) < MaxEdits
    /\ \E e \in Edits(tree) \ script : script' = script \cup {e}
    /\ UNCHANGED <<query, node_pc, parsed, diff_failed, node, mgr_vars, orch_vars, frames>>

\* diff() returns the script; the rest of __post_init__ derives the fields.
PostInit ==
    /\ node_pc = "diff"
    /\ \/ /\ may_return(tree, script)
          /\ node' = derive(tree, script)
          /\ node_pc' = "built"
       \/ /\ may_raise(tree, script)
          /\ node' = node
          /\ node_pc' = "raised"
    /\ UNCHANGED <<query, parsed, script, diff_failed, mgr_vars, orch_vars, frames>>

\* diff() raises: the except branch sets changes = [] and the fields are
\* derived from the empty script.
PostInitDiffFails ==
    /\ node_pc = "diff"
    /\ script = {}
    /\ diff_failed' = TRUE
    /\ node' = derive(tree, {})
    /\ node_pc' = "built"
    /\ UNCHANGED <<query, parsed, script, mgr_vars, orch_vars, frames>>

NextNode == Parse \/ DiffEmit \/ PostInit \/ PostInitDiffFails

SpecNode == InitNode /\ [][NextNode]_vars

----------------------------------------------------------------------------
\* Unique ids are dot-delimited paths, kept as their sequence of segments.

\* em.split(".")[-1]
last_segment(unique_id) == unique_id[Len(unique_id)]

\* f"{node.unique_id}.{column_name}"
node_column(unique_id, column) == Append(unique_id, column)

\* The ids of the modified models of the batch.
NodeIds == {<<"model", "p", "a">>, <<"model", "p", "b">>}

\* The ids the candidate universe and the lineage answers are drawn from;
\* two of them end in the same segment.
DownstreamIds == {<<"model", "p", "d1">>, <<"model", "p", "d2">>, <<"model", "q", "d1">>}

\* Edit scripts of the batch's nodes: no change, a removed output column,
\* two column changes inside the CTE, a changed table next to a column
\* change.
Scenarios ==
    { {}, {Remove(4)}, {Update(27), Remove(25)}, {Update(12), Update(27)} }

\* NodeFactory.create_nodes: one Node per entry of all_nodes.
create_node(unique_id, t, changes) ==
    LET d == derive(t, changes)
    IN  [unique_id |-> unique_id,
         column_changes |-> d.column_changes,
         ignore_column_changes |-> d.ignore_column_changes]

\* The batches: sequences of nodes with distinct unique ids.
Batches ==
    LET one == {create_node(u, T1, sc) : u \in NodeIds, sc \in Scenarios}
    IN  {<<>>} \cup {<<n>> : n \in one}
        \cup {pr \in one \X one : pr[1].unique_id # pr[2].unique_id}

\* The list of a bag of names: one entry per id, order left open.
BagOfNames(ids) ==
    [nm \in {last_segment(u) : u \in ids} |->
        Cardinality({u \in ids : last_segment(u) = nm})]

----------------------------------------------------------------------------
\* Discovery API answers.  A column-lineage answer is a list of entries
\* {nodeUniqueId, relationship}; a node-lineage answer is a list of
\* uniqueIds.  "error" stands for a query that raises or an answer of the
\* wrong shape.

\* An entry of the answer that carries no "relationship" key.
KeyMissing == "<no such key>"

LineageEntries ==
    { [nodeUniqueId |-> <<"model", "p", "d1">>, relationship |-> "child"],
      [nodeUniqueId |-> <<"model", "p", "d2">>, relationship |-> "child"],
      [nodeUniqueId |-> <<"model", "p", "d2">>, relationship |-> "parent"],
      [nodeUniqueId |-> <<"model", "p", "d1">>, relationship |-> KeyMissing] }

ColumnAnswers ==
    {[ok |-> FALSE, lineage |-> {}]}
    \cup {[ok |-> TRUE, lineage |-> l] : l \in SUBSET LineageEntries}

NodeAnswers ==
    {[ok |-> FALSE, lineage |-> {}]}
    \cup {[ok |-> TRUE, lineage |-> l] :
            l \in SUBSET {<<"model", "p", "d1">>, <<"model", "p", "d2">>}}

\* DiscoveryClient.get_column_lineage: the lineage, [] on any exception.
discovery_get_column_lineage(answer) ==
    IF answer.ok THEN answer.lineage ELSE {}

\* LineageService.get_column_lineage, line 57: node["relationship"] is a
\* KeyError for an entry without that key, outside any try block.
get_column_lineage_raises(answer) ==
    \E e \in discovery_get_column_lineage(answer) : e.relationship = KeyMissing

\* A plausible slip: the relationship filter is dropped.
get_column_lineage_unfiltered(answer) ==
    {e.nodeUniqueId : e \in discovery_get_column_lineage(answer)}

\* LineageService.get_column_lineage: the children among the entries.
get_column_lineage(answer) ==
    {e.nodeUniqueId :
        e \in {x \in discovery_get_column_lineage(answer) : x.relationship = "child"}}

\* DiscoveryClient.get_node_lineage / LineageService.get_node_lineage: the
\* uniqueIds of the answer, set() on any exception.
get_node_lineage(answer) ==
    IF answer.ok THEN answer.lineage ELSE {}

----------------------------------------------------------------------------
\* NodeManager.get_excluded_nodes

\* A plausible slip: only the empty batch returns early.
returns_early_nodes_only(ns, ids) == ns = <<>>

\* Lines 177-181: the two early returns.
returns_early(ns, ids) == ns = <<>> \/ ids = {}

\* A plausible slip: every node of the batch goes into the batch query.
ignore_nodes_all(ns) == ns

\* A plausible slip: the nodes with column changes go into the batch query
\* as well.
SelectAnyChange(n) == n.ignore_column_changes \/ n.column_changes # {}
ignore_nodes_any_change(ns) == SelectSeq(ns, SelectAnyChange)

\* Line 191: the nodes with node-level changes.
SelectIgnore(n) == n.ignore_column_changes
ignore_nodes(ns) == SelectSeq(ns, SelectIgnore)

\* A plausible slip: the impacted set is assigned, not updated.
merge_impacted_replace(impacted, found) == found

\* Lines 186 and 195: self._all_impacted_unique_ids.update(...)
merge_impacted(impacted, found) == impacted \cup found

\* A plausible slip: the impacted ids are not taken out.
excluded_nodes_all(ids, impacted) == BagOfNames(ids)

\* Lines 199-200: the names of the ids that are not impacted.
excluded_nodes(ids, impacted) == BagOfNames(ids \ impacted)

----------------------------------------------------------------------------
\* Config, and the strings sent to the Discovery API

\* Two of config.VALID_DIALECTS: the one that folds unquoted identifiers to
\* upper case, and one that does not.
Dialects == {"snowflake", "bigquery"}

\* str.upper() on the column names of the model; a string outside the
\* table has no lower-case letter.
UpperOf ==
    [nm \in {"name", "total", "category_total", "cnt", "id", "category_id",
             "flag", "amount"} |->
        CASE nm = "name" -> "NAME"
          [] nm = "total" -> "TOTAL"
          [] nm = "category_total" -> "CATEGORY_TOTAL"
          [] nm = "cnt" -> "CNT"
          [] nm = "id" -> "ID"
          [] nm = "category_id" -> "CATEGORY_ID"
          [] nm = "flag" -> "FLAG"
          [] nm = "amount" -> "AMOUNT"]

upper(str) == IF str \in DOMAIN UpperOf THEN UpperOf[str] ELSE str

\* DiscoveryClient.get_column_lineage, line 59: the columnName filter of
\* the query variables.
column_name_filter(column) == upper(column)

\* The Discovery API answers a question it was asked before as it did then.
ColumnAnswerAllowed(unique_id, column, ok, raised, result) ==
    \A k \in {j \in DOMAIN calls : calls[j].op = "column"} :
        (calls[k].unique_id = unique_id /\ calls[k].column_name = column)
            => (calls[k].ok = ok /\ calls[k].raised = raised /\ calls[k].result = result)

\* The models a node-lineage query selects: `--select a+ b+` is the union
\* of its parts, whatever their order.
Selection(names) == {names[k] : k \in DOMAIN names}

NodeAnswerAllowed(names, ok, result) ==
    \A k \in {j \in DOMAIN calls : calls[j].op = "node"} :
        Selection(calls[k].names) = Selection(names)
            => (calls[k].ok = ok /\ calls[k].result = result)

----------------------------------------------------------------------------
\* ColumnTracker

\* A plausible slip: the already-tracked test is lost.
is_tracked_never(key, tracked) == FALSE

\* Line 52: `node_column not in self._tracked_columns`, negated.
is_tracked(key, tracked) == key \in tracked

\* A plausible slip: a key is marked only when its lookup found consumers.
mark_tracked_if_found(tracked, key, result) ==
    IF result = {} THEN tracked ELSE tracked \cup {key}

\* A plausible slip: the key is never recorded.
mark_tracked_lost(tracked, key, result) == tracked

\* Line 62: self._tracked_columns.add(node_column)
mark_tracked(tracked, key, result) == tracked \cup {key}

\* A plausible slip: the accumulated set is returned.
track_result_accumulated(local, accumulated) == accumulated

\* Line 65: `return impacted_ids`, the local set of the call.
track_result(local, accumulated) == local

\* A plausible slip: the property hands out the tracker's own set.
impacted_ids_property_no_copy(accumulated) == [shared |-> TRUE, val |-> accumulated]

\* Lines 67-76: the property returns self._impacted_ids.copy(), a new set
\* object with the same members.
impacted_ids_property(accumulated) == [shared |-> FALSE, val |-> accumulated]

\* No set has been handed out.
NoHandle == [shared |-> FALSE, val |-> {<<"none">>}]

\* track_node_columns is entered with nodes[j]: the entry is logged with
\* the tracker's state at that moment.
TrackEntry(j) ==
    [unique_id |-> nodes[j].unique_id,
     entry_calls |-> Len(calls),
     entry_tracked |-> tracked_columns,
     entry_impacted |-> tracker_impacted,
     returned |-> FALSE,
     exit_calls |-> Len(calls),
     exit_tracked |-> tracked_columns,
     exit_impacted |-> tracker_impacted,
     delta |-> {}]

\* track_node_columns returns: the last entry of the log is completed.
TrackExit ==
    [track_log EXCEPT ![Len(track_log)] =
        [@ EXCEPT !.returned = TRUE,
                  !.exit_calls = Len(calls),
                  !.exit_tracked = tracked_columns,
                  !.exit_impacted = tracker_impacted,
                  !.delta = track_result(impacted_ids, tracker_impacted)]]

\* What the first NodeManager of a behaviour returned, before it has.
NoRun == [excluded |-> <<>>, impacted |-> {}]

Init ==
    /\ query = "q1"
    /\ node_pc = "new"
    /\ parsed = "pending"
    /\ script = {}
    /\ diff_failed = FALSE
    /\ node = NoNode
    /\ nodes \in Batches
    /\ all_unique_ids \in SUBSET DownstreamIds
    /\ all_impacted = {}
    /\ tracked_columns = {}
    /\ tracker_impacted = {}
    /\ mgr_pc = "idle"
    /\ i = 0
    /\ pending = {}
    /\ impacted_ids = {}
    /\ excluded = BagOfNames({})
    /\ calls = <<>>
    /\ dialect \in Dialects
    /\ track_log = <<>>
    /\ handle = NoHandle
    /\ run = 1
    /\ first_run = NoRun
    /\ orch_pc = "new"
    /\ orch_in = [target |-> {}, source |-> {}, listed |-> {}, dry_run |-> FALSE]
    /\ orch_log = <<>>
    /\ orch_result = None
    /\ frames = [t \in {1, 2} |-> [pc |-> "out", pending |-> {}, column |-> "", impacted_ids |-> {}]]

\* get_excluded_nodes is entered: the early returns, else the loop starts.
Begin ==
    /\ mgr_pc = "idle"
    /\ IF returns_early(nodes, all_unique_ids)
       THEN /\ excluded' = BagOfNames({})
            /\ mgr_pc' = "done"
            /\ i' = i
       ELSE /\ mgr_pc' = "loop"
            /\ i' = 1
            /\ excluded' = excluded
    /\ UNCHANGED <<node_vars, nodes, all_unique_ids, all_impacted, tracked_columns,
                   tracker_impacted, pending, impacted_ids, calls,
                   dialect, track_log, handle, run, first_run, orch_vars, frames>>

\* `for node in self.nodes: if node.column_changes:` -- a node without
\* column changes is passed over, for another track_node_columns is entered.
LoopStep ==
    /\ mgr_pc = "loop"
    /\ i <= Len(nodes)
    /\ IF nodes[i].column_changes # {}
       THEN /\ mgr_pc' = "track"
            /\ pending' = nodes[i].column_changes
            /\ impacted_ids' = {}
            /\ i' = i
            /\ track_log' = Append(track_log, TrackEntry(i))
       ELSE /\ i' = i + 1
            /\ UNCHANGED <<mgr_pc, pending, impacted_ids, track_log>>
    /\ UNCHANGED <<node_vars, nodes, all_unique_ids, all_impacted, tracked_columns,
                   tracker_impacted, excluded, calls,
                   dialect, handle, run, first_run, orch_vars, frames>>

\* One pass of `for column_name in node.column_changes` in
\* track_node_columns: a column not yet tracked is looked up.  When the
\* lookup raises, the exception leaves track_node_columns and its callers
\* before the key is marked.
TrackColumn ==
    /\ mgr_pc = "track"
    /\ \E column \in pending :
          LET key == node_column(nodes[i].unique_id, column)
              lookup(answer, raised, result) ==
                  [op |-> "column", unique_id |-> nodes[i].unique_id,
                   column_name |-> column,
                   columnName |-> column_name_filter(column),
                   key |-> key,
                   ok |-> answer.ok,
                   raised |-> raised,
                   result |-> result]
          IN  IF ~is_tracked(key, tracked_columns)
              THEN \E answer \in ColumnAnswers :
                     IF get_column_lineage_raises(answer)
                     THEN /\ ColumnAnswerAllowed(nodes[i].unique_id, column,
                                                 answer.ok, TRUE, {})
                          /\ calls' = Append(calls, lookup(answer, TRUE, {}))
                          /\ mgr_pc' = "raised"
                          /\ UNCHANGED <<pending, impacted_ids, tracked_columns,
                                         tracker_impacted>>
                     ELSE LET result == get_column_lineage(answer)
                          IN  /\ ColumnAnswerAllowed(nodes[i].unique_id, column,
                                                     answer.ok, FALSE, result)
                              /\ pending' = pending \ {column}
                              /\ impacted_ids' = impacted_ids \cup result
                              /\ tracked_columns' = mark_tracked(tracked_columns, key, result)
                              /\ tracker_impacted' = tracker_impacted \cup impacted_ids'
                              /\ calls' = Append(calls, lookup(answer, FALSE, result))
                              /\ mgr_pc' = mgr_pc
              ELSE /\ pending' = pending \ {column}
                   /\ UNCHANGED <<impacted_ids, tracked_columns, tracker_impacted,
                                  calls, mgr_pc>>
    /\ UNCHANGED <<node_vars, nodes, all_unique_ids, all_impacted, i, excluded,
                   dialect, track_log, handle, run, first_run, orch_vars, frames>>

\* track_node_columns returns its impacted_ids; line 186 merges them.
TrackReturn ==
    /\ mgr_pc = "track"
    /\ pending = {}
    /\ all_impacted' = merge_impacted(all_impacted,
                                       track_result(impacted_ids, tracker_impacted))
    /\ track_log' = TrackExit
    /\ impacted_ids' = {}
    /\ i' = i + 1
    /\ mgr_pc' = "loop"
    /\ UNCHANGED <<node_vars, nodes, all_unique_ids, tracked_columns, tracker_impacted,
                   pending, excluded, calls,
                   dialect, handle, run, first_run, orch_vars, frames>>

\* Lines 190-200: the batch query for the nodes with node-level changes,
\* then the excluded names.
NodeLevel ==
    /\ mgr_pc = "loop"
    /\ i > Len(nodes)
    /\ LET ns == ignore_nodes(nodes)
           names == [k \in 1..Len(ns) |-> last_segment(ns[k].unique_id)]
       IN  IF ns # <<>>
           THEN \E answer \in NodeAnswers :
                  LET result == get_node_lineage(answer)
                  IN  /\ NodeAnswerAllowed(names, answer.ok, result)
                      /\ all_impacted' = merge_impacted(all_impacted, result)
                      /\ calls' = Append(calls,
                            [op |-> "node", names |-> names,
                             ok |-> answer.ok, result |-> result])
           ELSE UNCHANGED <<all_impacted, calls>>
    /\ excluded' = excluded_nodes(all_unique_ids, all_impacted')
    /\ mgr_pc' = "done"
    /\ UNCHANGED <<node_vars, nodes, all_unique_ids, tracked_columns, tracker_impacted,
                   i, pending, impacted_ids,
                   dialect, track_log, handle, run, first_run, orch_vars, frames>>

Next == Begin \/ LoopStep \/ TrackColumn \/ TrackReturn \/ NodeLevel

Spec == Init /\ [][Next]_vars

----------------------------------------------------------------------------
\* One ColumnTracker driven by its caller: track_node_columns with any node
\* of a pool, any number of times, and the impacted_ids property.

InitTracker ==
    /\ query = "q1"
    /\ node_pc = "new"
    /\ parsed = "pending"
    /\ script = {}
    /\ diff_failed = FALSE
    /\ node = NoNode
    /\ nodes \in Batches \ {<<>>}
    /\ all_unique_ids = {}
    /\ all_impacted = {}
    /\ tracked_columns = {}
    /\ tracker_impacted = {}
    /\ mgr_pc = "idle"
    /\ i = 0
    /\ pending = {}
    /\ impacted_ids = {}
    /\ excluded = BagOfNames({})
    /\ calls = <<>>
    /\ dialect = "snowflake"
    /\ track_log = <<>>
    /\ handle = NoHandle
    /\ run = 1
    /\ first_run = NoRun
    /\ orch_pc = "new"
    /\ orch_in = [target |-> {}, source |-> {}, listed |-> {}, dry_run |-> FALSE]
    /\ orch_log = <<>>
    /\ orch_result = None
    /\ frames = [t \in {1, 2} |-> [pc |-> "out", pending |-> {}, column |-> "", impacted_ids |-> {}]]

\* tracker.track_node_columns(node) is entered (lines 33-48).
TrackerCall ==
    /\ mgr_pc = "idle"
    /\ Len(track_log) < MaxCalls
    /\ \E j \in DOMAIN nodes :
          /\ i' = j
          /\ pending' = nodes[j].column_changes
          /\ track_log' = Append(track_log, TrackEntry(j))
    /\ impacted_ids' = {}
    /\ mgr_pc' = "track"
    /\ UNCHANGED <<node_vars, nodes, all_unique_ids, all_impacted, tracked_columns,
                   tracker_impacted, excluded, calls,
                   dialect, handle, run, first_run, orch_vars, frames>>

\* The call returns to its caller (line 65).
TrackerReturn ==
    /\ mgr_pc = "track"
    /\ pending = {}
    /\ track_log' = TrackExit
    /\ impacted_ids' = {}
    /\ mgr_pc' = "idle"
    /\ UNCHANGED <<node_vars, nodes, all_unique_ids, all_impacted, tracked_columns,
                   tracker_impacted, i, pending, excluded, calls,
                   dialect, handle, run, first_run, orch_vars, frames>>

\* The caller reads tracker.impacted_ids (lines 67-76).
ReadImpacted ==
    /\ mgr_pc = "idle"
    /\ handle' = impacted_ids_property(tracker_impacted)
    /\ UNCHANGED <<node_vars, nodes, all_unique_ids, all_impacted, tracked_columns,
                   tracker_impacted, mgr_pc, i, pending, impacted_ids, excluded, calls,
                   dialect, track_log, run, first_run, orch_vars, frames>>

\* The ids the caller adds to or discards from a set it was handed.
CallerIds == {<<"model", "p", "d1">>, <<"model", "q", "d1">>}

\* The caller changes the set object it was handed; the tracker's set
\* changes with it exactly when both are the same object.
MutateHandle ==
    /\ mgr_pc = "idle"
    /\ handle # NoHandle
    /\ \E x \in CallerIds :
          \/ handle' = [handle EXCEPT !.val = @ \cup {x}]
          \/ handle' = [handle EXCEPT !.val = @ \ {x}]
    /\ tracker_impacted' = IF handle.shared THEN handle'.val ELSE tracker_impacted
    /\ UNCHANGED <<node_vars, nodes, all_unique_ids, all_impacted, tracked_columns,
                   mgr_pc, i, pending, impacted_ids, excluded, calls,
                   dialect, track_log, run, first_run, orch_vars, frames>>

NextTracker == TrackerCall \/ TrackColumn \/ TrackerReturn

SpecTracker == InitTracker /\ [][NextTracker]_vars

\* The same tracker with a caller that also reads the property and changes
\* what it was handed; the pool is one node with column changes.
InitAccessor ==
    /\ InitTracker
    /\ Len(nodes) = 1
    /\ nodes[1].column_changes # {}

NextAccessor == NextTracker \/ ReadImpacted \/ MutateHandle

SpecAccessor == InitAccessor /\ [][NextAccessor]_vars

----------------------------------------------------------------------------
\* Two track_node_columns calls for the same node that overlap in time on
\* one ColumnTracker.  Each call advances by the steps of lines 50-65: the
\* test of line 52, the lookup of lines 57-61, the updates of lines 62-63.

Callers == {1, 2}

InitOverlap ==
    /\ InitTracker
    /\ Len(nodes) = 1
    /\ nodes[1].column_changes # {}

\* Lines 33-48: the call is entered.
OverlapEnter(t) ==
    /\ frames[t].pc = "out"
    /\ frames' = [frames EXCEPT ![t] = [pc |-> "loop",
                                        pending |-> nodes[1].column_changes,
                                        column |-> "",
                                        impacted_ids |-> {}]]
    /\ UNCHANGED <<node_vars, mgr_vars, orch_vars>>

\* Lines 50-52: the next column and the already-tracked test.
OverlapCheck(t) ==
    /\ frames[t].pc = "loop"
    /\ \E column \in frames[t].pending :
          IF is_tracked(node_column(nodes[1].unique_id, column), tracked_columns)
          THEN frames' = [frames EXCEPT ![t].pending = @ \ {column}]
          ELSE frames' = [frames EXCEPT ![t].pc = "query", ![t].column = column]
    /\ UNCHANGED <<node_vars, mgr_vars, orch_vars>>

\* Lines 57-61: the lookup is sent and answered.
OverlapQuery(t) ==
    /\ frames[t].pc = "query"
    /\ LET column == frames[t].column
           lookup(answer, raised, result) ==
               [op |-> "column", unique_id |-> nodes[1].unique_id,
                column_name |-> column,
                columnName |-> column_name_filter(column),
                key |-> node_column(nodes[1].unique_id, column),
                ok |-> answer.ok,
                raised |-> raised,
                result |-> result]
       IN  \E answer \in ColumnAnswers :
              IF get_column_lineage_raises(answer)
              THEN /\ ColumnAnswerAllowed(nodes[1].unique_id, column, answer.ok, TRUE, {})
                   /\ calls' = Append(calls, lookup(answer, TRUE, {}))
                   /\ frames' = [frames EXCEPT ![t].pc = "raised"]
              ELSE LET result == get_column_lineage(answer)
                   IN  /\ ColumnAnswerAllowed(nodes[1].unique_id, column,
                                              answer.ok, FALSE, result)
                       /\ calls' = Append(calls, lookup(answer, FALSE, result))
                       /\ frames' = [frames EXCEPT ![t].pc = "mark",
                                                   ![t].impacted_ids = @ \cup result]
    /\ UNCHANGED <<node_vars, nodes, all_unique_ids, all_impacted, tracked_columns,
                   tracker_impacted, mgr_pc, i, pending, impacted_ids, excluded,
                   dialect, track_log, handle, run, first_run, orch_vars>>

\* Lines 62-63: the key is marked and the tracker's set is updated.
OverlapMark(t) ==
    /\ frames[t].pc = "mark"
    /\ tracked_columns' = mark_tracked(tracked_columns,
                              node_column(nodes[1].unique_id, frames[t].column),
                              frames[t].impacted_ids)
    /\ tracker_impacted' = tracker_impacted \cup frames[t].impacted_ids
    /\ frames' = [frames EXCEPT ![t].pc = "loop", ![t].pending = @ \ {frames[t].column}]
    /\ UNCHANGED <<node_vars, nodes, all_unique_ids, all_impacted,
                   mgr_pc, i, pending, impacted_ids, excluded, calls,
                   dialect, track_log, handle, run, first_run, orch_vars>>

\* Line 65: the call returns.
OverlapReturn(t) ==
    /\ frames[t].pc = "loop"
    /\ frames[t].pending = {}
    /\ frames' = [frames EXCEPT ![t].pc = "returned"]
    /\ UNCHANGED <<node_vars, mgr_vars, orch_vars>>

NextOverlap ==
    \E t \in Callers :
        \/ OverlapEnter(t) \/ OverlapCheck(t) \/ OverlapQuery(t)
        \/ OverlapMark(t) \/ OverlapReturn(t)

SpecOverlap == InitOverlap /\ [][NextOverlap]_vars

----------------------------------------------------------------------------
\* The same inputs with a failing diff

\* A second NodeManager is built on the inputs of the first, except that
\* diff() raises for one node of the batch: its changes are [] (lines
\* 59-60) and its fields are derived from the empty script.  The Discovery
\* API answers as it did for the first manager.
FailedDiffRun ==
    /\ mgr_pc = "done"
    /\ run = 1
    /\ \E n \in DOMAIN nodes :
          nodes' = [nodes EXCEPT ![n] = create_node(nodes[n].unique_id, T1, {})]
    /\ first_run' = [excluded |-> excluded, impacted |-> all_impacted]
    /\ run' = 2
    /\ all_impacted' = {}
    /\ tracked_columns' = {}
    /\ tracker_impacted' = {}
    /\ mgr_pc' = "idle"
    /\ i' = 0
    /\ pending' = {}
    /\ impacted_ids' = {}
    /\ excluded' = BagOfNames({})
    /\ track_log' = <<>>
    /\ UNCHANGED <<node_vars, all_unique_ids, calls, dialect, handle, orch_vars, frames>>

\* A batch with a node whose diff can fail, and the whole universe to
\* exclude from.
InitDegrade ==
    /\ Init
    /\ nodes # <<>>
    /\ all_unique_ids = DownstreamIds
    /\ dialect = "snowflake"

NextDegrade == Next \/ FailedDiffRun

SpecDegrade == InitDegrade /\ [][NextDegrade]_vars

----------------------------------------------------------------------------
\* The same inputs in another order

\* A second NodeManager is built on the batch of the first with its nodes
\* in another order (the dict handed to NodeFactory.create_nodes lists the
\* same models otherwise), on the same universe.  The Discovery API answers
\* as it did for the first manager.
ReorderedRun ==
    /\ mgr_pc = "done"
    /\ run = 1
    /\ \E order \in Permutations(DOMAIN nodes) :
          nodes' = [k \in DOMAIN nodes |-> nodes[order[k]]]
    /\ first_run' = [excluded |-> excluded, impacted |-> all_impacted]
    /\ run' = 2
    /\ all_impacted' = {}
    /\ tracked_columns' = {}
    /\ tracker_impacted' = {}
    /\ mgr_pc' = "idle"
    /\ i' = 0
    /\ pending' = {}
    /\ impacted_ids' = {}
    /\ excluded' = BagOfNames({})
    /\ track_log' = <<>>
    /\ UNCHANGED <<node_vars, all_unique_ids, calls, dialect, handle, orch_vars, frames>>

\* A batch of two nodes, so that there is an order to change.
InitReorder ==
    /\ Init
    /\ Len(nodes) = 2
    /\ all_unique_ids = DownstreamIds
    /\ dialect = "snowflake"

NextReorder == Next \/ ReorderedRun

SpecReorder == InitReorder /\ [][NextReorder]_vars

----------------------------------------------------------------------------
\* get_excluded_nodes called again

\* The caller calls get_excluded_nodes a second time on the NodeManager
\* whose first call has returned: the manager's impacted set and its
\* tracker are the ones the first call left (lines 151 and 154 run once,
\* in __init__).  The Discovery API answers as it did before.
SecondCall ==
    /\ mgr_pc = "done"
    /\ run = 1
    /\ first_run' = [excluded |-> excluded, impacted |-> all_impacted,
                     tracked |-> tracked_columns, calls |-> Len(calls)]
    /\ run' = 2
    /\ mgr_pc' = "idle"
    /\ i' = 0
    /\ pending' = {}
    /\ impacted_ids' = {}
    /\ UNCHANGED <<node_vars, nodes, all_unique_ids, all_impacted, tracked_columns,
                   tracker_impacted, excluded, calls, dialect, track_log, handle,
                   orch_vars, frames>>

InitSecondCall ==
    /\ Init
    /\ dialect = "snowflake"

NextSecondCall == Next \/ SecondCall

SpecSecondCall == InitSecondCall /\ [][NextSecondCall]_vars

----------------------------------------------------------------------------
\* CiOrchestrator.run

Bool(b) == [tag |-> "bool", val |-> b]

\* dbt.get_all_unique_ids: the ids `dbt ls --select state:modified+` lists,
\* without the ids handed in as modified.
get_all_unique_ids_unfiltered(listed, modified_unique_ids) == listed

get_all_unique_ids(listed, modified_unique_ids) == listed \ modified_unique_ids

\* A plausible slip: every model with target code is analysed.
all_nodes_keys_target_only(target_nodes, source_nodes) == target_nodes

\* compile_and_get_nodes, lines 87-90: the ids with both target and source
\* code.
all_nodes_keys(target_nodes, source_nodes) == target_nodes \cap source_nodes

\* A plausible slip: setup() is called before the try block is entered.
caught_after_setup(step) == step # "setup"

\* run(), lines 158 and 173-175: the try block spans every step and
\* `except Exception` turns what a step raises into `return False`.
caught(step) == TRUE

\* utils.JobRunStatus as trigger_job reports it, or a response without a
\* "status" key. trigger_job polls the run (should_poll=True), so the
\* status it reports is one a finished run has.
RunStatuses == {"SUCCESS", "ERROR", "CANCELLED", KeyMissing}

\* A plausible slip: only ERROR counts as a failure.
check_job_error_only(run_status) ==
    IF run_status = KeyMissing THEN FALSE ELSE run_status # "ERROR"

\* trigger_and_check_job, lines 137-143.
check_job(run_status) ==
    IF run_status = KeyMissing THEN FALSE
    ELSE run_status \notin {"ERROR", "CANCELLED"}

\* What the run can find: the modified models with target code, those of
\* them with source code in the deferred environment, the ids `dbt ls`
\* lists (the modified models and models downstream of them), dry_run.
OrchInputs ==
    {r \in [target : SUBSET NodeIds, source : SUBSET NodeIds,
            listed : SUBSET (NodeIds \cup {<<"model", "p", "d1">>, <<"model", "p", "d2">>}),
            dry_run : BOOLEAN] :
        r.source \subseteq r.target /\ r.target \subseteq r.listed}

\* NodeFactory.create_nodes on all_nodes: one Node per id, in the order of
\* the dict, whatever the edit scripts of the models are.
NodesFor(ids) ==
    {b \in Batches : /\ Len(b) = Cardinality(ids)
                     /\ {b[j].unique_id : j \in DOMAIN b} = ids}

\* An entry of the step log; status is what the job run reported when the
\* step triggered a job.
Step(name, given, names, raised) ==
    [step |-> name, given |-> given, names |-> names, raised |-> raised,
     status |-> "no run"]

InitOrch ==
    /\ query = "q1"
    /\ node_pc = "new"
    /\ parsed = "pending"
    /\ script = {}
    /\ diff_failed = FALSE
    /\ node = NoNode
    /\ nodes = <<>>
    /\ all_unique_ids = {}
    /\ all_impacted = {}
    /\ tracked_columns = {}
    /\ tracker_impacted = {}
    /\ mgr_pc = "off"
    /\ i = 0
    /\ pending = {}
    /\ impacted_ids = {}
    /\ excluded = BagOfNames({})
    /\ calls = <<>>
    /\ dialect = "snowflake"
    /\ track_log = <<>>
    /\ handle = NoHandle
    /\ run = 1
    /\ first_run = NoRun
    /\ orch_pc = "new"
    /\ orch_in \in OrchInputs
    /\ orch_log = <<>>
    /\ orch_result = None
    /\ frames = [t \in {1, 2} |-> [pc |-> "out", pending |-> {}, column |-> "", impacted_ids |-> {}]]

\* A step raises: run() returns False from its except clause, or the
\* exception leaves run() when the step is not inside the try block.
Fails(name) ==
    /\ orch_log' = Append(orch_log, Step(name, FALSE, BagOfNames({}), TRUE))
    /\ orch_result' = IF caught(name) THEN Bool(FALSE) ELSE Raise
    /\ orch_pc' = "returned"

\* Line 160: self.setup()
OrchSetup ==
    /\ orch_pc = "new"
    /\ \/ /\ orch_log' = Append(orch_log, Step("setup", FALSE, BagOfNames({}), FALSE))
          /\ orch_pc' = "compile"
          /\ orch_result' = orch_result
       \/ Fails("setup")
    /\ UNCHANGED <<node_vars, mgr_vars, orch_in, frames>>

\* Lines 163-165: compile_and_get_nodes(), then the branch on all_nodes.
OrchCompile ==
    /\ orch_pc = "compile"
    /\ \/ /\ orch_log' = Append(orch_log, Step("compile", FALSE, BagOfNames({}), FALSE))
          /\ orch_pc' = IF all_nodes_keys(orch_in.target, orch_in.source) = {}
                        THEN "trigger" ELSE "exclude"
          /\ orch_result' = orch_result
       \/ Fails("compile")
    /\ UNCHANGED <<node_vars, mgr_vars, orch_in, frames>>

\* Line 168 with lines 114-115: the universe is computed and the
\* NodeManager is built; building a Node raises when a text does not parse.
OrchExclude ==
    /\ orch_pc = "exclude"
    /\ LET keys == all_nodes_keys(orch_in.target, orch_in.source)
       IN  \/ /\ orch_log' = Append(orch_log,
                     Step("get_excluded_nodes", FALSE, BagOfNames({}), FALSE))
              /\ all_unique_ids' = get_all_unique_ids(orch_in.listed, keys)
              /\ nodes' \in NodesFor(keys)
              /\ mgr_pc' = "idle"
              /\ orch_pc' = "analysis"
              /\ orch_result' = orch_result
           \/ /\ Fails("get_excluded_nodes")
              /\ UNCHANGED <<nodes, all_unique_ids, mgr_pc>>
    /\ UNCHANGED <<node_vars, all_impacted, tracked_columns, tracker_impacted,
                   i, pending, impacted_ids, excluded, calls,
                   dialect, track_log, handle, run, first_run, orch_in, frames>>

\* Line 116 returns, or raises what a lineage lookup raised.
OrchAnalysed ==
    /\ orch_pc = "analysis"
    /\ \/ /\ mgr_pc = "done"
          /\ orch_pc' = "trigger"
          /\ UNCHANGED <<orch_log, orch_result>>
       \/ /\ mgr_pc = "raised"
          /\ orch_log' = [orch_log EXCEPT ![Len(orch_log)].raised = TRUE]
          /\ orch_result' = IF caught("get_excluded_nodes") THEN Bool(FALSE) ELSE Raise
          /\ orch_pc' = "returned"
    /\ UNCHANGED <<node_vars, mgr_vars, orch_in, frames>>

\* Lines 165 and 171 with lines 131-143: trigger_and_check_job, without
\* exclusions when there was nothing to analyse.
OrchTrigger ==
    /\ orch_pc = "trigger"
    /\ LET given == mgr_pc = "done"
           names == IF given THEN excluded ELSE BagOfNames({})
           name == IF orch_in.dry_run THEN "post_dry_run_message" ELSE "trigger_job"
       IN  \/ /\ orch_log' = Append(orch_log, Step(name, given, names, TRUE))
              /\ orch_result' = IF caught(name) THEN Bool(FALSE) ELSE Raise
           \/ /\ orch_in.dry_run
              /\ orch_log' = Append(orch_log, Step(name, given, names, FALSE))
              /\ orch_result' = Bool(TRUE)
           \/ /\ ~orch_in.dry_run
              /\ \E run_status \in RunStatuses :
                    /\ orch_log' = Append(orch_log,
                           [Step(name, given, names, FALSE) EXCEPT !.status = run_status])
                    /\ orch_result' = Bool(check_job(run_status))
    /\ orch_pc' = "returned"
    /\ UNCHANGED <<node_vars, mgr_vars, orch_in, frames>>

NextOrch ==
    \/ OrchSetup \/ OrchCompile \/ OrchExclude \/ OrchAnalysed \/ OrchTrigger
    \/ Begin \/ LoopStep \/ TrackColumn \/ TrackReturn \/ NodeLevel

SpecOrch == InitOrch /\ [][NextOrch]_vars

----------------------------------------------------------------------------
\* Vocabulary of the claims about get_excluded_nodes

Done == mgr_pc = "done"

\* What the lineage lookups of the run have returned.
LookupResults == UNION {calls[k].result : k \in DOMAIN calls}

ColumnCalls == {k \in DOMAIN calls : calls[k].op = "column"}

\* C1: with a non-empty batch and a non-empty universe the returned list
\* holds the last segment of every id of the universe outside the impacted
\* set, the impacted set being the union of the column-lineage results
\* (one lookup per changed column of the nodes with column changes) and of
\* the batch node-lineage result; no id a lookup returned is excluded.
C1_ExcludedIsUniverseMinusImpacted ==
    (Done /\ nodes # <<>> /\ all_unique_ids # {}) =>
        /\ excluded = BagOfNames(all_unique_ids \ LookupResults)
        /\ all_impacted = LookupResults
        /\ \A k \in ColumnCalls :
              \E j \in DOMAIN nodes :
                  /\ nodes[j].unique_id = calls[k].unique_id
                  /\ calls[k].column_name \in nodes[j].column_changes
        /\ \A j \in DOMAIN nodes : \A c \in nodes[j].column_changes :
              \E k \in ColumnCalls :
                  /\ calls[k].unique_id = nodes[j].unique_id
                  /\ calls[k].column_name = c
        /\ \A k \in DOMAIN calls :
              calls[k].result \cap (all_unique_ids \ all_impacted) = {}

\* C1 witness: a column lookup and the batch lookup both return ids of the
\* universe, and what is left is excluded by name.
C1_Witness ==
    /\ Done
    /\ all_unique_ids = DownstreamIds
    /\ \E k \in ColumnCalls : calls[k].result = {<<"model", "p", "d1">>}
    /\ \E k \in DOMAIN calls :
          calls[k].op = "node" /\ calls[k].result = {<<"model", "p", "d2">>}
    /\ excluded = BagOfNames({<<"model", "q", "d1">>})

\* Every node of the batch is free of breaking changes.
NoBreakingChange ==
    \A j \in DOMAIN nodes :
        nodes[j].column_changes = {} /\ ~nodes[j].ignore_column_changes

C3_EarlyReturn ==
    (nodes = <<>> \/ all_unique_ids = {}) =>
        /\ calls = <<>>
        /\ tracked_columns = {}
        /\ tracker_impacted = {}
        /\ all_impacted = {}
        /\ mgr_pc \in {"idle", "done"}
        /\ Done => excluded = BagOfNames({})

\* C3 witness: a batch with column changes and a structural change, and an
\* empty universe.
C3_Witness ==
    /\ Done
    /\ all_unique_ids = {}
    /\ \E j \in DOMAIN nodes : nodes[j].column_changes # {}
    /\ \E j \in DOMAIN nodes : nodes[j].ignore_column_changes

----------------------------------------------------------------------------
\* Vocabulary of the claims about one node

\* n is an entry of the projection list of a Select.
ProjectionEntry(t, n) ==
    /\ t[n].parent # 0
    /\ t[t[n].parent].key = "select"
    /\ t[n].arg = "expressions"

RECURSIVE Ancestors(_, _)
Ancestors(t, n) ==
    IF t[n].parent = 0 THEN {} ELSE {t[n].parent} \cup Ancestors(t, t[n].parent)

\* n is a projection entry or lies inside one.
InProjection(t, n) ==
    \E a \in {n} \cup Ancestors(t, n) : ProjectionEntry(t, a)

Built == node_pc = "built"

\* C4: for every constructed Node, ignore_column_changes is true iff at
\* least one breaking change resolves to no column name, and whenever it is
\* true column_changes is empty.
C4_IgnoreIffUnresolved ==
    Built =>
        /\ node.ignore_column_changes
             = (\E bc \in node.breaking_changes :
                    column_name(tree, expr_of(bc)) = None)
        /\ (node.ignore_column_changes => node.column_changes = {})

\* C4 witness: a structural change next to a change that resolves to a name.
C4_Witness ==
    /\ Built
    /\ node.ignore_column_changes
    /\ node.column_changes = {}
    /\ \E bc \in node.breaking_changes :
          column_name(tree, expr_of(bc)) = Str("category_total")
    /\ \E bc \in node.breaking_changes : column_name(tree, expr_of(bc)) = None

\* C5: each Remove edit and each Update edit of the script is among the
\* node's breaking changes, wherever its expression sits in the tree.
C5_RemoveUpdateBreaking ==
    Built =>
        \A e \in node.changes :
            e.kind \in {"Remove", "Update"} => e \in node.breaking_changes

\* C5 witness: a Remove directly under the Select and an Update inside the
\* CTE, both flagged.
C5_Witness ==
    /\ Built
    /\ Remove(4) \in node.breaking_changes
    /\ Update(27) \in node.breaking_changes

\* An Insert of an expression that is no table-valued construct, directly
\* in the projection list of the top-level Select.
BareProjectionInsert(t, e) ==
    /\ e.kind = "Insert"
    /\ t[e.expression].key \notin UDTFKeys
    /\ t[e.expression].parent # 0
    /\ t[t[e.expression].parent].parent = 0
    /\ ProjectionEntry(t, e.expression)

\* C6: a bare Insert directly under the top-level projection list is never
\* a breaking change, and a node whose only edits are such Inserts has no
\* breaking change, no column change and ignore_column_changes false.
C6_BareInsertNotBreaking ==
    Built =>
        /\ \A e \in node.changes :
              BareProjectionInsert(tree, e) => e \notin node.breaking_changes
        /\ (\A e \in node.changes : BareProjectionInsert(tree, e))
              => /\ node.breaking_changes = {}
                 /\ node.column_changes = {}
                 /\ ~node.ignore_column_changes

\* C6 witness: a script of two new output columns.
C6_Witness ==
    /\ Built
    /\ node.changes = {Insert(2), Insert(3)}
    /\ node.breaking_changes = {}

\* The root of the freshly inserted subtree that holds n: the highest node
\* reached from n through parents the same script inserts.
RECURSIVE TopInserted(_, _, _)
TopInserted(t, changes, n) ==
    IF t[n].parent # 0 /\ Insert(t[n].parent) \in changes
    THEN TopInserted(t, changes, t[n].parent)
    ELSE n

\* C7 (as claimed): every Insert that is not flagged is a new projection
\* entry or lies in a freshly inserted subtree whose root is a new
\* projection entry or is itself flagged, and an Insert in a non-projection
\* context whose parent is not freshly inserted is flagged.
C7_UnflaggedInsertIsNewColumn ==
    Built =>
        \A e \in node.changes :
            e.kind = "Insert" =>
                /\ e \notin node.breaking_changes
                      => LET top == TopInserted(tree, node.changes, e.expression)
                         IN  \/ ProjectionEntry(tree, top)
                             \/ /\ top # e.expression
                                /\ Insert(top) \in node.breaking_changes
                /\ (/\ ~InProjection(tree, e.expression)
                    /\ Insert(tree[e.expression].parent) \notin node.changes)
                      => e \in node.breaking_changes

\* C8 (as claimed): column_name is none for every breaking edit anchored
\* outside every projection entry, and is a name only when the upward walk
\* meets a projection entry.
C8_NoneOutsideProjection ==
    Built =>
        \A bc \in node.breaking_changes :
            LET r == column_name(tree, expr_of(bc))
            IN  /\ ~InProjection(tree, expr_of(bc)) => r = None
                /\ r.tag = "str" => InProjection(tree, expr_of(bc))

\* The outermost alias or column on the walk up from n (0 when the walk
\* reaches the root without one).
RECURSIVE ResolvedEntry(_, _)
ResolvedEntry(t, n) ==
    IF /\ t[n].key \in {"alias", "column"}
       /\ \A a \in Ancestors(t, n) : t[a].key \notin {"alias", "column"}
    THEN n
    ELSE IF t[n].parent = 0 THEN 0
    ELSE ResolvedEntry(t, t[n].parent)

\* The name under which the outer query refers to the CTE: the alias of a
\* table reference to it outside every CTE, else the CTE's own name.
CteQualifier(t, cte) ==
    LET tables == {x \in DOMAIN t : /\ t[x].key = "table"
                                    /\ t[x].name = t[cte].alias
                                    /\ t[x].alias # ""
                                    /\ \A a \in Ancestors(t, x) : t[a].key # "cte"}
    IN  IF tables = {} THEN {t[cte].alias} ELSE {t[x].alias : x \in tables}

\* The column references of the outer query to the CTE output column that
\* the entry defines.
OuterRefs(t, entry) ==
    LET cte == CHOOSE a \in Ancestors(t, entry) :
                   /\ t[a].key = "cte"
                   /\ \A b \in Ancestors(t, entry) :
                         t[b].key = "cte" => b \in {a} \cup Ancestors(t, a)
    IN  {c \in DOMAIN t :
            /\ t[c].key = "column"
            /\ \A a \in Ancestors(t, c) : t[a].key \notin {"cte", "select"} \/ t[a].parent = 0
            /\ t[c].table \in CteQualifier(t, cte)
            /\ t[c].name = alias_or_name(t, entry)}

\* C9: for a breaking edit inside a CTE whose output column has one outer
\* reference under the CTE's table alias, column_name is the alias that
\* wraps the reference, or the reference's own name when no alias wraps
\* it; the name is among column_changes unless the node is structural.
C9_CteOuterName ==
    Built =>
        \A bc \in node.breaking_changes :
            LET entry == ResolvedEntry(tree, expr_of(bc))
            IN  (/\ entry # 0
                 /\ \E a \in Ancestors(tree, entry) : tree[a].key = "cte"
                 /\ Cardinality(OuterRefs(tree, entry)) = 1)
                => LET ref == CHOOSE c \in OuterRefs(tree, entry) : TRUE
                       wraps == {a \in Ancestors(tree, ref) : tree[a].key = "alias"}
                       outer == IF wraps = {} THEN tree[ref].name
                                ELSE tree[CHOOSE a \in wraps :
                                            \A b \in wraps : depth(tree, b) <= depth(tree, a)].alias
                   IN  /\ column_name(tree, expr_of(bc)) = Str(outer)
                       /\ ~node.ignore_column_changes => outer \in node.column_changes

\* C9 witness: an edit under the CTE's `total`, exposed as category_total,
\* and the removal of the CTE's `cnt`, referenced without an alias.
C9_Witness ==
    /\ Built
    /\ node.changes = {Update(27), Remove(25)}
    /\ node.column_changes = {"category_total", "cnt"}

\* C10 (as claimed): a parse failure of either text, or a failure of the
\* diff, never raises; the node is built with no changes at all.
C10_FailuresNeverRaise ==
    (parsed \in {"source_error", "target_error"} \/ diff_failed) =>
        /\ node_pc # "raised"
        /\ Built => /\ node.changes = {}
                    /\ node.breaking_changes = {}
                    /\ node.column_changes = {}
                    /\ ~node.ignore_column_changes

----------------------------------------------------------------------------
\* Claims about errors and the ColumnTracker

\* The ids a finished run leaves out of the build.
ExcludedIds == all_unique_ids \ all_impacted

\* C11 (as claimed): with the lineage answers equal, the ids excluded by
\* the manager for which the diff of one node failed are among the ids
\* excluded by the manager for which that diff succeeded, whatever its edit
\* script was.
C11_FailedDiffExcludesNoMore ==
    (run = 2 /\ Done) =>
        ExcludedIds \subseteq (all_unique_ids \ first_run.impacted)

\* The track_node_columns calls that have returned.
Returned == {b \in DOMAIN track_log : track_log[b].returned}

\* The lineage lookups issued during call b of the log.
CallsOf(b) == (track_log[b].entry_calls + 1) .. track_log[b].exit_calls

\* C12: a track_node_columns call for a node the same tracker has already
\* been called with returns the empty set, issues no lineage query, and
\* leaves the tracked-column set and the accumulated impacted set as they
\* were when it was entered.
C12_SecondTrackIsEmpty ==
    \A a \in Returned : \A b \in Returned :
        (a < b /\ track_log[a].unique_id = track_log[b].unique_id) =>
            /\ track_log[b].delta = {}
            /\ CallsOf(b) = {}
            /\ track_log[b].exit_tracked = track_log[b].entry_tracked
            /\ track_log[b].exit_impacted = track_log[b].entry_impacted

\* C12 witness: a node is tracked twice; the first call found consumers,
\* the second returned nothing.
C12_Witness ==
    \E a \in Returned : \E b \in Returned :
        /\ a < b
        /\ track_log[a].unique_id = track_log[b].unique_id
        /\ track_log[a].delta # {}
        /\ track_log[b].delta = {}
        /\ track_log[b].exit_impacted # {}

\* C13: over all the calls on one tracker no key unique_id.column is looked
\* up twice, and every key whose lookup came back is marked tracked, the
\* ones whose lookup failed and came back empty included.
C13_AtMostOnePerKey ==
    /\ \A k \in ColumnCalls : \A m \in ColumnCalls :
          calls[k].key = calls[m].key => k = m
    /\ \A k \in ColumnCalls :
          ~calls[k].raised => calls[k].key \in tracked_columns
    /\ \A k \in ColumnCalls : ~calls[k].ok => calls[k].result = {}

\* C13 witness: a lookup failed, and a later call for the same node has
\* returned without a second lookup of that key.
C13_Witness ==
    \E k \in ColumnCalls : \E b \in Returned :
        /\ ~calls[k].ok
        /\ track_log[b].unique_id = calls[k].unique_id
        /\ track_log[b].entry_calls >= k
        /\ calls[k].key \in tracked_columns

\* C14: each call returns the union of the results of the lookups issued
\* during it (the keys it met for the first time), and between calls the
\* accumulated impacted set is the union of the deltas returned so far.
C14_ReturnsDelta ==
    /\ \A b \in Returned :
          track_log[b].delta = UNION {calls[k].result : k \in CallsOf(b)}
    /\ mgr_pc = "idle" =>
          tracker_impacted = UNION {track_log[b].delta : b \in Returned}

\* C14 witness: a call returns a delta that is not the accumulated set.
C14_Witness ==
    \E b \in Returned :
        /\ track_log[b].delta # {}
        /\ track_log[b].delta # track_log[b].exit_impacted
        /\ mgr_pc = "idle"

\* C16: a step that hands out or changes the set returned by the
\* impacted_ids property changes nothing of the tracker: not its
\* accumulated impacted set, not its tracked columns.
C16_AccessorIsDefensiveCopy ==
    [][handle' # handle =>
          /\ tracker_impacted' = tracker_impacted
          /\ tracked_columns' = tracked_columns
          /\ calls' = calls]_vars

\* C16 witness: the caller has added an id to and discarded an id from the
\* set it was handed, and the tracker's set still holds what was tracked.
C16_Witness ==
    /\ <<"model", "q", "d1">> \in handle.val
    /\ <<"model", "p", "d1">> \notin handle.val
    /\ <<"model", "q", "d1">> \notin tracker_impacted
    /\ <<"model", "p", "d1">> \in tracker_impacted

\* C15 (as claimed): the column name in the lineage query is the upper-case
\* form of the changed column's name when the dialect is snowflake and the
\* name itself for any other dialect, and the key marked tracked is built
\* from the name as it is in column_changes.
C15_FoldOnlyForSnowflake ==
    \A k \in ColumnCalls :
        /\ calls[k].columnName = IF dialect = "snowflake"
                                 THEN upper(calls[k].column_name)
                                 ELSE calls[k].column_name
        /\ calls[k].key = node_column(calls[k].unique_id, calls[k].column_name)
        /\ \E j \in DOMAIN nodes :
              /\ nodes[j].unique_id = calls[k].unique_id
              /\ calls[k].column_name \in nodes[j].column_changes

NodeCalls == {k \in DOMAIN calls : calls[k].op = "node"}

\* The nodes of the batch with ignore_column_changes true.
IgnoreIndexes == {j \in DOMAIN nodes : nodes[j].ignore_column_changes}

\* C17 (as claimed): by the time a run returns, the batch node-lineage
\* query has been issued exactly once if some node has
\* ignore_column_changes true and not at all otherwise.
C17_BatchQueryIffIgnoreNode ==
    Done => (Cardinality(NodeCalls) = 1 <=> IgnoreIndexes # {})

\* C17 (amended): the batch node-lineage query is issued at most once in a
\* run, with exactly the nodes that have ignore_column_changes true, after
\* every changed column of the batch has been looked up and before no
\* column lookup; a run with a non-empty universe that returns has issued
\* it exactly once if some node has ignore_column_changes true and not at
\* all otherwise, and a run with an empty universe never issues it.
C17_BatchQueryOnce ==
    /\ Cardinality(NodeCalls) <= 1
    /\ \A k \in NodeCalls :
          /\ IgnoreIndexes # {}
          /\ Len(calls[k].names) = Cardinality(IgnoreIndexes)
          /\ {calls[k].names[x] : x \in DOMAIN calls[k].names}
                = {last_segment(nodes[j].unique_id) : j \in IgnoreIndexes}
          /\ \A m \in ColumnCalls : m < k
          /\ \A j \in DOMAIN nodes : \A c \in nodes[j].column_changes :
                \E m \in ColumnCalls :
                    calls[m].unique_id = nodes[j].unique_id /\ calls[m].column_name = c
    /\ (Done /\ all_unique_ids # {}) =>
          (Cardinality(NodeCalls) = 1 <=> IgnoreIndexes # {})
    /\ all_unique_ids = {} => NodeCalls = {}

\* C17 witness: a batch of a node with column changes and a node with a
\* structural change; the column lookups come first, then one batch query
\* naming the second node only.
C17_Witness ==
    /\ Done
    /\ Len(nodes) = 2
    /\ Cardinality(ColumnCalls) = 2
    /\ Len(calls) = 3
    /\ calls[3].op = "node"
    /\ calls[3].names = <<"b">>

\* C18 (as claimed): a lineage lookup whose query raised or whose answer is
\* malformed comes back empty and never raises, and the run goes on to
\* return a list computed from the other lookups.
C18_LookupErrorsDegrade ==
    /\ mgr_pc # "raised"
    /\ \A k \in DOMAIN calls : ~calls[k].ok => calls[k].result = {}
    /\ \A k \in ColumnCalls : ~calls[k].raised
    /\ (Done /\ nodes # <<>> /\ all_unique_ids # {}) =>
          excluded = BagOfNames(all_unique_ids \ LookupResults)

----------------------------------------------------------------------------
\* Claims about the whole run

\* The entries of the step log that hand a list to the job (or, in a dry
\* run, to the message).
TriggerSteps ==
    {k \in DOMAIN orch_log : orch_log[k].step \in {"trigger_job", "post_dry_run_message"}}

\* One changed node A with one changed column, `dbt ls` listing A and two
\* more models, and the one lineage lookup of the run naming exactly one of
\* these two.
OneColumnOneConsumer ==
    /\ Len(nodes) = 1
    /\ Cardinality(nodes[1].column_changes) = 1
    /\ ~nodes[1].ignore_column_changes
    /\ Cardinality(orch_in.listed) = 3
    /\ Len(calls) = 1
    /\ calls[1].op = "column"
    /\ ~calls[1].raised
    /\ Cardinality(calls[1].result) = 1
    /\ calls[1].result \subseteq orch_in.listed

C20_RunNeverRaises ==
    /\ orch_result # Raise
    /\ \A k \in DOMAIN orch_log :
          orch_log[k].raised =>
              /\ k = Len(orch_log)
              /\ orch_pc = "returned"
              /\ orch_result = Bool(FALSE)
              /\ mgr_pc \in {"off", "done", "raised"}
    /\ mgr_pc = "raised" => TriggerSteps = {}

\* C20 witness: a lineage lookup raised inside the exclusion analysis; the
\* run returned False after setup, compilation and analysis, without a
\* trigger.
C20_Witness ==
    /\ orch_pc = "returned"
    /\ mgr_pc = "raised"
    /\ orch_result = Bool(FALSE)
    /\ Len(orch_log) = 3
    /\ orch_log[3].step = "get_excluded_nodes"
    /\ orch_log[3].raised


\* The entries of the step log with a given step name.
StepsNamed(name) == {k \in DOMAIN orch_log : orch_log[k].step = name}

\* run() has returned and no step of it raised.
RanClean == orch_pc = "returned" /\ \A k \in DOMAIN orch_log : ~orch_log[k].raised

\* Compilation left nothing to analyse: no modified model has both target
\* and source code.
NothingToAnalyse == \A u \in orch_in.target : u \notin orch_in.source

\* The shape of a clean run's step log, the workflow's last step being the
\* entries in `last`.
CleanRunShape(last) ==
    /\ StepsNamed("setup") = {1}
    /\ StepsNamed("compile") = {2}
    /\ last = {Len(orch_log)}
    /\ IF NothingToAnalyse
       THEN /\ Len(orch_log) = 3
            /\ StepsNamed("get_excluded_nodes") = {}
            /\ mgr_pc = "off"
            /\ ~orch_log[3].given
            /\ orch_log[3].names = BagOfNames({})
       ELSE /\ Len(orch_log) = 4
            /\ StepsNamed("get_excluded_nodes") = {3}
            /\ mgr_pc = "done"
            /\ orch_log[4].given
            /\ orch_log[4].names = excluded

\* C21 as stated: every run in which no step raises triggers the job
\* exactly once, after setup and compilation, with no exclusions and no
\* get_excluded_nodes call when there is nothing to analyse and otherwise
\* with the list the single get_excluded_nodes call returned.
C21_TriggersJobOnce == RanClean => CleanRunShape(StepsNamed("trigger_job"))

\* C21, amended: every run in which no step raises calls
\* trigger_and_check_job exactly once, after setup and compilation in that
\* order; that call triggers the job when dry_run is not set and posts the
\* dry-run message instead when it is; it is made with no exclusions and
\* without a get_excluded_nodes call when there is nothing to analyse, and
\* otherwise with exactly the list the single get_excluded_nodes call
\* returned.
C21_TriggerCallOnce ==
    RanClean =>
        /\ CleanRunShape(TriggerSteps)
        /\ StepsNamed("trigger_job") = IF orch_in.dry_run THEN {} ELSE TriggerSteps
        /\ StepsNamed("post_dry_run_message") = IF orch_in.dry_run THEN TriggerSteps ELSE {}

\* C21 witness: a clean run, not a dry run, that analysed two nodes and
\* triggered the job with a non-empty list.
C21_Witness ==
    /\ RanClean
    /\ ~orch_in.dry_run
    /\ Len(nodes) = 2
    /\ Len(orch_log) = 4
    /\ orch_log[4].step = "trigger_job"
    /\ orch_log[4].names = excluded
    /\ excluded # BagOfNames({})


----------------------------------------------------------------------------
\* Claims about overlapping track_node_columns calls

\* C23: the already-tracked check and the marking of a key are one step
\* taken before the lookup for the key is sent: a call that is about to
\* send the lookup for a key has marked it, and two overlapping calls for
\* the same node send at most one lookup per key.
C23_MarkedBeforeDispatch ==
    /\ \A t \in Callers :
          frames[t].pc = "query" =>
              node_column(nodes[1].unique_id, frames[t].column) \in tracked_columns
    /\ \A a, b \in ColumnCalls : calls[a].key = calls[b].key => a = b


----------------------------------------------------------------------------
\* Claims about the order of the batch

\* C24: the names get_excluded_nodes returns do not depend on the order in
\* which the nodes of the batch are processed and their lineage results
\* merged: a manager given the same nodes in another order, the same
\* universe and the same lineage answers returns the same names, from the
\* same impacted set.
C24_OrderIndependent ==
    (run = 2 /\ Done) =>
        /\ DOMAIN excluded = DOMAIN first_run.excluded
        /\ excluded = first_run.excluded
        /\ all_impacted = first_run.impacted

\* C24 witness: two nodes with column changes whose lookups found
\* different consumers, processed in the other order by the second
\* manager, which returned a non-empty list.
C24_Witness ==
    /\ run = 2
    /\ Done
    /\ Len(nodes) = 2
    /\ track_log # <<>>
    /\ track_log[1].unique_id = nodes[1].unique_id
    /\ calls[1].op = "column"
    /\ calls[1].unique_id = nodes[2].unique_id
    /\ \E a, b \in ColumnCalls :
          /\ calls[a].unique_id # calls[b].unique_id
          /\ calls[a].result # calls[b].result
          /\ calls[a].result # {}
          /\ calls[b].result # {}
    /\ excluded # BagOfNames({})


----------------------------------------------------------------------------
\* Claims about the names in the returned list

\* C25: no model that is in the candidate universe and in the impacted set
\* has its bare name in the returned list, also when two ids of the
\* universe end in the same segment.
C25_ImpactedNameNotExcluded ==
    Done =>
        \A u \in all_unique_ids \cap all_impacted :
            last_segment(u) \notin DOMAIN excluded


\* C26: a model modified in the pull request, that is one with target
\* compiled code, is never named in the list handed to the job trigger,
\* also when it has no compiled code in the deferred environment.
C26_ModifiedNeverExcluded ==
    \A k \in TriggerSteps :
        \A u \in orch_in.target :
            last_segment(u) \notin DOMAIN orch_log[k].names


----------------------------------------------------------------------------
\* Claims about CTE columns and the outer query

\* The breaking edit bc lies in a CTE output column and the outer query
\* holds references to that column.
CteEntryWithRefs(t, bc) ==
    LET entry == ResolvedEntry(t, expr_of(bc))
    IN  /\ entry # 0
        /\ \E a \in Ancestors(t, entry) : t[a].key = "cte"
        /\ OuterRefs(t, entry) # {}

\* C27: when the outer query uses an edited CTE output column only inside
\* a join condition or a filter, not in its projection list, the node is
\* structurally changed and the edit resolves to no column name.
C27_JoinOnlyUseIsStructural ==
    Built =>
        \A bc \in node.breaking_changes :
            (/\ CteEntryWithRefs(tree, bc)
             /\ \A c \in OuterRefs(tree, ResolvedEntry(tree, expr_of(bc))) :
                   ~InProjection(tree, c))
            => /\ node.ignore_column_changes
               /\ column_name(tree, expr_of(bc)) = None


----------------------------------------------------------------------------
\* Claims about what a Node keeps of its breaking changes

\* C28: a constructed Node with a breaking change has ignore_column_changes
\* true or a non-empty column_changes, also when a breaking change resolves
\* to the empty string.
C28_NoBreakingChangeDropped ==
    Built =>
        (node.breaking_changes # {}
            => node.ignore_column_changes \/ node.column_changes # {})


\* The name under which the projection of the outer query exposes the
\* reference c: the alias of the projection entry that holds it, or the
\* reference's own name when it is the entry.
ExposedName(t, c) ==
    LET top == CHOOSE a \in {c} \cup Ancestors(t, c) : ProjectionEntry(t, a)
    IN  alias_or_name(t, top)

\* C29: when more than one projection entry of the outer query refers to
\* an edited CTE output column, column_changes holds the exposed name of
\* every such entry (unless the node is structurally changed).
C29_EveryExposedName ==
    Built =>
        \A bc \in node.breaking_changes :
            LET entry == ResolvedEntry(tree, expr_of(bc))
                exposing == {c \in OuterRefs(tree, entry) : InProjection(tree, c)}
            IN  (/\ CteEntryWithRefs(tree, bc)
                 /\ Cardinality(exposing) > 1
                 /\ ~node.ignore_column_changes)
                => \A c \in exposing : ExposedName(tree, c) \in node.column_changes


----------------------------------------------------------------------------
\* Claims about a second get_excluded_nodes call

\* C30: a second get_excluded_nodes call on the same NodeManager, with
\* every lookup answered as before, issues no column-lineage query, never
\* shrinks the impacted set or the tracked-column set, and returns the
\* names the first call returned.
C30_SecondCallSame ==
    run = 2 =>
        /\ \A k \in ColumnCalls : k <= first_run.calls
        /\ first_run.impacted \subseteq all_impacted
        /\ first_run.tracked \subseteq tracked_columns
        /\ Done => /\ DOMAIN excluded = DOMAIN first_run.excluded
                   /\ excluded = first_run.excluded

\* C30 witness: the first call looked up a column and sent the batch
\* query; the second call has returned a non-empty list after entering
\* track_node_columns again and sending the batch query again.
C30_Witness ==
    /\ run = 2
    /\ Done
    /\ excluded # BagOfNames({})
    /\ first_run.tracked # {}
    /\ first_run.impacted # {}
    /\ \E k \in ColumnCalls : calls[k].result # {}
    /\ \E k \in DOMAIN track_log : track_log[k].entry_calls >= first_run.calls
    /\ \E k \in NodeCalls : k > first_run.calls

====
